---- MODULE Spec2Model ----
(***************************************************************************)
(* The mailboxes of pulsar/async/mailbox.py as a state machine.            *)
(*                                                                         *)
(* Spec      : one SocketServerMailbox (the inbox), the SocketMailbox      *)
(*             outboxes that connect to it, the reactor that delivers      *)
(*             readability events, and the transport between them.         *)
(* SpecQueue : QueueMailbox senders and an IOQueue poller on one queue.    *)
(* The other specifications are introduced where their actions are.       *)
(***************************************************************************)
EXTENDS Integers, Sequences, FiniteSets, TLC

VARIABLES
    srvActor,    \* SocketServerMailbox.actor
    srvType,     \* SocketServerMailbox.type
    srvSock,     \* SocketServerMailbox.sock: None, or the listening socket's state
    srvFd,       \* descriptor number of the listening socket (0: none)
    clients,     \* SocketServerMailbox.clients: descriptor -> accepted socket
    handlers,    \* descriptors with a read handler in actor.ioloop
    callbacks,   \* what actor.ioloop.add_callback was given
    arrived,     \* <<m>> if the last call gave m to actor.message_arrived, else <<>>
    outActor,    \* SocketMailbox.actor, per outbox
    outType,     \* SocketMailbox.type, per outbox
    outSock,     \* SocketMailbox.sock, per outbox: None, "open", "closed"
    cliEnd,      \* the outbox's end of its connection, as the transport sees it
    srvEnd,      \* the inbox's end of that connection
    peerFd,      \* descriptor number the accepted socket got (0: none)
    wire,        \* bytes written by the outbox and not yet read by the inbox
    rxbuf,       \* bytes read from the connection since a read last yielded a message
    owed,        \* per connection, the messages whose put returned normally and
                 \* that message_arrived has not been given yet, oldest first
    torn,        \* a send on the connection wrote only part of its message
    nputs,       \* number of put calls made so far
    exc,         \* the exception the last call raised ("none": it returned)
    queue,       \* the multiprocessing queue: FIFO of <<id, message>>
    qclosed,     \* the queue has been closed
    qblocked,    \* per QueueMailbox, <<m>> while its put of m waits for room, else <<>>
    polled,      \* what the last IOQueue.poll returned
    nqputs,      \* number of QueueMailbox.put calls made so far
    qowed,       \* per QueueMailbox, the messages it has enqueued and that
                 \* no poll has returned yet, oldest first
    ioFds,       \* IOQueue._fds
    reclosed,    \* history: the last call was a close() of a socket mailbox
                 \* that was already closed or never registered
    pollState,   \* the reactor's thread: "idle", or "blocked" inside IOQueue.poll
    wblocked,    \* a QueueWaker.wake call is waiting for room in the queue
    woken,       \* history: wake() was called during the present blocked poll
    leaked,      \* descriptors of listening sockets a later register replaced:
                 \* still open, no longer referenced by the mailbox
    nregs,       \* number of register calls made so far
    nconn,       \* number of create_connection calls made so far
    qActor,      \* QueueMailbox.actor, per queue mailbox
    qType,       \* QueueMailbox.type, per queue mailbox
    qHandlers,   \* queue mailboxes with a read handler in actor.ioloop
    made,        \* what the last call of mailbox() returned (None: nothing)
    started,     \* WsgiResponse._started
    content,     \* WsgiResponse._content
    encoding,    \* WsgiResponse.encoding
    contentType, \* WsgiResponse.headers['content-type']
    contentLength, \* WsgiResponse.headers['content-length']: <<>> when
                 \* there is none, else <<the length>>
    tpc,         \* where TestRequest.run_test stands
    tcase,       \* the test it runs: what the test case has, and whether
                 \* it is skipped
    ran,         \* the phases run_test has run, in order
    failures,    \* the phases whose outcome add_failure took for a failure
    success,     \* the local success of run_test
    reports,     \* what run_test has told the runner, in order
    spc,         \* where TestRequest.start stands
    testcls,     \* the test class it runs: what it defines, whether it is
                 \* skipped, and how many test cases it has
    steps,       \* what start has run, in order
    should_stop, \* the local should_stop of start
    handled,     \* the event the loop gave last to a queue mailbox's
                 \* on_message, if any
    transferred  \* the outbox whose __getstate__ was called last, and
                 \* the state it returned

sockVars == <<srvActor, srvType, srvSock, srvFd, clients, handlers, callbacks,
              outActor, outType, outSock, cliEnd, srvEnd, peerFd,
              wire, rxbuf, owed, torn, nputs>>
queueVars == <<queue, qclosed, qblocked, polled, nqputs, qowed, ioFds>>
wakeVars == <<pollState, wblocked, woken>>
regVars == <<leaked, nregs, nconn, qActor, qType, qHandlers>>
factVars == <<made>>
wsgiVars == <<started, content, encoding, contentType, contentLength>>
testVars == <<tpc, tcase, ran, failures, success, reports>>
startVars == <<spc, testcls, steps, should_stop>>
loopVars == <<handled>>
pickleVars == <<transferred>>
\* the state outside the mailboxes
appVars == <<factVars, wsgiVars, testVars, startVars, loopVars, pickleVars>>
vars == <<sockVars, queueVars, exc, arrived, reclosed, wakeVars, regVars,
          appVars>>

None == "None"

(***************************************************************************)
(* Bounds and input sets.                                                  *)
(***************************************************************************)
MaxPuts == 2
MaxQPuts == 3
MaxRegs == 3
QueueMaxSize == 2
MaxTests == 3
MaxBurst == 3
Outboxes == {"o1", "o2"}
QueueIds == {"q1", "q2"}
Fds == 1..(Cardinality(Outboxes) + 1)

\* pickle opcodes (protocol 2): NEWTRUE, NEWFALSE and STOP '.'
NEWTRUE == 136
NEWFALSE == 137
STOP == 46
\* the objects that are sent: True, and False, which is falsy
Messages == BOOLEAN

\* io.DEFAULT_BUFFER_SIZE, scaled down
DEFAULT_BUFFER_SIZE == 4

Min(a, b) == IF a < b THEN a ELSE b

(***************************************************************************)
(* pickle.dumps / pickle.loads on the objects of Messages.                 *)
(***************************************************************************)
dumps(m) == <<IF m THEN NEWTRUE ELSE NEWFALSE, STOP>>

RECURSIVE Unpickle(_, _, _)
\* the unpickler's loop from byte i on; stack is its stack, the top last.
\* It ends at the first STOP, whatever follows it.
Unpickle(b, i, stack) ==
    IF i > Len(b) THEN [exc |-> "EOFError", obj |-> FALSE]
    ELSE IF b[i] = STOP
         THEN IF stack = <<>> THEN [exc |-> "UnpicklingError", obj |-> FALSE]
                              ELSE [exc |-> "none", obj |-> stack[Len(stack)]]
    ELSE IF b[i] \in {NEWTRUE, NEWFALSE}
         THEN Unpickle(b, i + 1, Append(stack, b[i] = NEWTRUE))
    ELSE [exc |-> "UnpicklingError", obj |-> FALSE]

loads(b) == Unpickle(b, 1, <<>>)

\* Python truth value of an unpickled object
Truthy(m) == m

(***************************************************************************)
(* Descriptors of the inbox's process: the lowest free number is given.    *)
(***************************************************************************)
OpenFds == (IF srvSock = "open" THEN {srvFd} ELSE {})
           \cup {peerFd[o] : o \in {p \in Outboxes : srvEnd[p] = "open"}}
           \cup leaked

LowestFree(used) == CHOOSE f \in Fds \ used : \A g \in Fds \ used : f <= g

InitQueue ==
    /\ queue = <<>>
    /\ qclosed = FALSE
    /\ qblocked = [q \in QueueIds |-> <<>>]
    /\ polled = <<>>
    /\ nqputs = 0
    /\ qowed = [q \in QueueIds |-> <<>>]
    /\ ioFds = {}

InitSock ==
    /\ srvActor = None
    /\ srvType = None
    /\ srvSock = None
    /\ srvFd = 0
    /\ clients = [f \in Fds |-> None]
    /\ handlers = {}
    /\ callbacks = <<>>
    /\ outActor = [o \in Outboxes |-> None]
    /\ outType = [o \in Outboxes |-> None]
    /\ outSock = [o \in Outboxes |-> None]
    /\ cliEnd = [o \in Outboxes |-> "none"]
    /\ srvEnd = [o \in Outboxes |-> "none"]
    /\ peerFd = [o \in Outboxes |-> 0]
    /\ wire = [o \in Outboxes |-> <<>>]
    /\ rxbuf = [o \in Outboxes |-> <<>>]
    /\ owed = [o \in Outboxes |-> <<>>]
    /\ torn = [o \in Outboxes |-> FALSE]
    /\ nputs = 0

(***************************************************************************)
(* WsgiResponse(): content None is kept as the empty tuple; no encoding,   *)
(* no content type.  Content is the chunks it yields, and whether it is a  *)
(* stream, an iterable without a length.                                   *)
(***************************************************************************)
InitWsgi ==
    /\ started = FALSE
    /\ content = [streamed |-> FALSE, chunks |-> <<>>]
    /\ encoding = None
    /\ contentType = None
    /\ contentLength = <<>>

\* no test is being run
InitTest ==
    /\ tpc = "idle"
    /\ tcase = [pre |-> FALSE, post |-> FALSE, skip |-> FALSE]
    /\ ran = <<>>
    /\ failures = {}
    /\ success = TRUE
    /\ reports = <<>>

\* start has not been called
InitStart ==
    /\ spc = "idle"
    /\ testcls = [setUpClass |-> FALSE, tearDownClass |-> FALSE,
                  skip |-> FALSE, tests |-> 0]
    /\ steps = <<>>
    /\ should_stop = FALSE

InitApp ==
    /\ made = None
    /\ InitWsgi
    /\ InitTest
    /\ InitStart
    /\ handled = <<>>
    /\ transferred = <<>>

Init ==
    /\ InitSock
    /\ InitQueue
    /\ exc = "none"
    /\ arrived = <<>>
    /\ reclosed = FALSE
    /\ pollState = "idle"
    /\ wblocked = FALSE
    /\ woken = FALSE
    /\ leaked = {}
    /\ nregs = 0
    /\ nconn = 0
    /\ qActor = [q \in QueueIds |-> None]
    /\ qType = [q \in QueueIds |-> None]
    /\ qHandlers = {}
    /\ InitApp

(***************************************************************************)
(* Mailbox.register on the SocketServerMailbox: register(actor, inbox),    *)
(* with SocketServerMailbox.on_actor and serverSocket inlined.  The actor  *)
(* is given by its impl.                                                   *)
(***************************************************************************)
Impls == {"worker", "monitor"}

\* Mailbox.address of the SocketServerMailbox: sock.getsockname(), never empty
SrvAddress == "sockname"

\* register tells the arbiter of every inbox with an address
NotifiesMonitorToo(impl, inbox, address) == inbox /\ address # None

\* when register schedules the 'inbox_address' callback
Notifies(impl, inbox, address) == inbox /\ impl # "monitor" /\ address # None

\* register adds the read handler before on_actor looks at the role
SrvRegisterCallHandlerFirst(impl, inbox) ==
    /\ nregs < MaxRegs
    /\ nregs' = nregs + 1
    /\ srvActor' = impl
    /\ srvType' = IF inbox THEN "inbox" ELSE "outbox"
    /\ Fds \ OpenFds # {}        \* within the descriptors there are
    \* on_actor: the listening socket is made before the role is looked at;
    \* a socket it replaces stays open, and so do the connections waiting on
    \* it, which nobody accepts any more
    /\ srvSock' = "open"
    /\ srvFd' = LowestFree(OpenFds)
    /\ leaked' = leaked \cup (IF srvSock = "open" THEN {srvFd} ELSE {})
    /\ srvEnd' = [o \in Outboxes |->
                    IF srvSock = "open" /\ srvEnd[o] = "pending"
                    THEN "orphan" ELSE srvEnd[o]]
    /\ IF ~inbox
       THEN /\ exc' = "ValueError"
            /\ handlers' = handlers \cup {srvFd'}
            /\ UNCHANGED callbacks
       ELSE /\ handlers' = handlers \cup {srvFd'}
            /\ callbacks' = IF Notifies(impl, inbox, SrvAddress)
                            THEN Append(callbacks, <<"inbox_address", SrvAddress>>)
                            ELSE callbacks
            /\ exc' = "none"
    /\ arrived' = <<>>
    /\ UNCHANGED <<clients, outActor, outType, outSock, cliEnd, peerFd,
                   wire, rxbuf, owed, torn, nputs, queueVars>>
    /\ UNCHANGED <<wakeVars, appVars, nconn, qActor, qType, qHandlers>>
    /\ reclosed' = FALSE

SrvRegisterCall(impl, inbox) ==
    /\ nregs < MaxRegs
    /\ nregs' = nregs + 1
    /\ srvActor' = impl
    /\ srvType' = IF inbox THEN "inbox" ELSE "outbox"
    /\ Fds \ OpenFds # {}        \* within the descriptors there are
    \* on_actor: the listening socket is made before the role is looked at;
    \* a socket it replaces stays open, and so do the connections waiting on
    \* it, which nobody accepts any more
    /\ srvSock' = "open"
    /\ srvFd' = LowestFree(OpenFds)
    /\ leaked' = leaked \cup (IF srvSock = "open" THEN {srvFd} ELSE {})
    /\ srvEnd' = [o \in Outboxes |->
                    IF srvSock = "open" /\ srvEnd[o] = "pending"
                    THEN "orphan" ELSE srvEnd[o]]
    /\ IF ~inbox
       THEN /\ exc' = "ValueError"
            /\ UNCHANGED <<handlers, callbacks>>
       ELSE /\ handlers' = handlers \cup {srvFd'}
            /\ callbacks' = IF Notifies(impl, inbox, SrvAddress)
                            THEN Append(callbacks, <<"inbox_address", SrvAddress>>)
                            ELSE callbacks
            /\ exc' = "none"
    /\ arrived' = <<>>
    /\ UNCHANGED <<clients, outActor, outType, outSock, cliEnd, peerFd,
                   wire, rxbuf, owed, torn, nputs, queueVars>>
    /\ UNCHANGED <<wakeVars, appVars, nconn, qActor, qType, qHandlers>>
    /\ reclosed' = FALSE

\* the one register call a mailbox is meant to get
SrvRegister(impl, inbox) == srvActor = None /\ SrvRegisterCall(impl, inbox)

(***************************************************************************)
(* Mailbox.register on a SocketMailbox, with SocketMailbox.on_actor:       *)
(* create_connection succeeds when the inbox is listening.  A connected    *)
(* outbox that connects once more is left out.                             *)
(***************************************************************************)
\* on_actor takes any role
OutRoleAny(type) == TRUE

\* the role SocketMailbox.on_actor goes on with
OutRoleOk(type) == type # "inbox"

\* a connect that fails is tried a second time
ConnectRetries(o) ==
    IF srvSock = "open"
    THEN /\ nconn' = nconn + 1
         /\ outSock' = [outSock EXCEPT ![o] = "open"]
         /\ cliEnd' = [cliEnd EXCEPT ![o] = "open"]
         /\ srvEnd' = [srvEnd EXCEPT ![o] = "pending"]
         /\ exc' = "none"
    ELSE /\ nconn' = nconn + 2
         /\ exc' = "socket.error"
         /\ UNCHANGED <<outSock, cliEnd, srvEnd>>

\* self.sock = create_connection(self._address, blocking=True)
Connect(o) ==
    /\ nconn' = nconn + 1
    /\ IF srvSock = "open"
       THEN /\ outSock' = [outSock EXCEPT ![o] = "open"]
            /\ cliEnd' = [cliEnd EXCEPT ![o] = "open"]
            /\ srvEnd' = [srvEnd EXCEPT ![o] = "pending"]
            /\ exc' = "none"
       ELSE /\ exc' = "socket.error"
            /\ UNCHANGED <<outSock, cliEnd, srvEnd>>

OutRegisterCall(o, inbox) ==
    /\ nregs < MaxRegs
    /\ ~(outSock[o] # None /\ ~inbox /\ srvSock = "open")
    /\ nregs' = nregs + 1
    /\ outActor' = [outActor EXCEPT ![o] = "worker"]
    /\ outType' = [outType EXCEPT ![o] = IF inbox THEN "inbox" ELSE "outbox"]
    /\ IF OutRoleOk(outType'[o])
       THEN Connect(o)
       ELSE /\ exc' = "ValueError"
            /\ UNCHANGED <<outSock, cliEnd, srvEnd, nconn>>
    /\ arrived' = <<>>
    /\ UNCHANGED <<srvActor, srvType, srvSock, srvFd, clients, handlers,
                   callbacks, peerFd, wire, rxbuf, owed, torn, nputs, queueVars>>
    /\ UNCHANGED <<wakeVars, appVars, leaked, qActor, qType, qHandlers>>
    /\ reclosed' = FALSE

OutRegister(o, inbox) == outActor[o] = None /\ OutRegisterCall(o, inbox)

(***************************************************************************)
(* Mailbox.register on a QueueMailbox: on_actor does nothing and address() *)
(* is Mailbox.address, which returns None.                                 *)
(***************************************************************************)
QAddress == None

QRegister(q, impl, inbox) ==
    /\ nregs < MaxRegs
    /\ nregs' = nregs + 1
    /\ qActor' = [qActor EXCEPT ![q] = impl]
    /\ qType' = [qType EXCEPT ![q] = IF inbox THEN "inbox" ELSE "outbox"]
    /\ qHandlers' = IF inbox THEN qHandlers \cup {q} ELSE qHandlers
    /\ callbacks' = IF Notifies(impl, inbox, QAddress)
                    THEN Append(callbacks, <<"inbox_address", QAddress>>)
                    ELSE callbacks
    /\ exc' = "none"
    /\ arrived' = <<>>
    /\ UNCHANGED <<srvActor, srvType, srvSock, srvFd, clients, handlers,
                   outActor, outType, outSock, cliEnd, srvEnd, peerFd,
                   wire, rxbuf, owed, torn, nputs, queueVars>>
    /\ UNCHANGED <<wakeVars, appVars, leaked, nconn>>
    /\ reclosed' = FALSE

(***************************************************************************)
(* SocketMailbox.put: pickle.dumps, then one sock.send, whose count of     *)
(* bytes written is returned.                                              *)
(***************************************************************************)
\* the numbers of bytes one send of request may write: all of them, or (a
\* short write) fewer; one short count stands for the others
SendCounts(request) == {Len(request) - 1, Len(request)}

\* sock.send raises socket.error; a connection error leaves the socket dead
SendFails(o, dead) ==
    /\ exc' = "socket.error"
    /\ cliEnd' = [cliEnd EXCEPT ![o] = IF dead THEN "dead" ELSE @]
    /\ UNCHANGED <<wire, owed, torn>>

\* send writes on whatever socket the outbox holds, closed or not
PutIgnoresClose(o, m) ==
    /\ nputs < MaxPuts
    /\ nputs' = nputs + 1
    /\ outSock[o] # None
    /\ wire' = [wire EXCEPT ![o] = @ \o dumps(m)]
    /\ owed' = [owed EXCEPT ![o] = Append(@, m)]
    /\ exc' = "none"
    /\ arrived' = <<>>
    /\ UNCHANGED <<srvActor, srvType, srvSock, srvFd, clients, handlers,
                   callbacks, outActor, outType, outSock, srvEnd, peerFd,
                   rxbuf, torn, cliEnd, queueVars>>
    /\ UNCHANGED <<wakeVars, appVars, regVars>>
    /\ reclosed' = FALSE

Put(o, m) ==
    /\ nputs < MaxPuts
    /\ nputs' = nputs + 1
    /\ LET request == dumps(m) IN
       IF outSock[o] = None
       THEN \* None has no attribute send
            exc' = "AttributeError" /\ UNCHANGED <<wire, owed, torn, cliEnd>>
       ELSE IF outSock[o] = "closed"
       THEN SendFails(o, FALSE)
       ELSE IF cliEnd[o] = "dead"
       THEN SendFails(o, TRUE)
       ELSE \* with the peer gone the send fails, or the bytes are still taken
            \/ srvEnd[o] = "closed" /\ SendFails(o, TRUE)
            \/ \E k \in SendCounts(request) :
                  /\ wire' = [wire EXCEPT ![o] = @ \o SubSeq(request, 1, k)]
                  /\ owed' = [owed EXCEPT ![o] = Append(@, m)]
                  /\ torn' = [torn EXCEPT ![o] = @ \/ k < Len(request)]
                  /\ exc' = "none"
                  /\ UNCHANGED cliEnd
    /\ arrived' = <<>>
    /\ UNCHANGED <<srvActor, srvType, srvSock, srvFd, clients, handlers,
                   callbacks, outActor, outType, outSock, srvEnd, peerFd,
                   rxbuf, queueVars>>
    /\ UNCHANGED <<wakeVars, appVars, regVars>>
    /\ reclosed' = FALSE

(***************************************************************************)
(* close() of the socket object the mailboxes hold: the socket is closed   *)
(* afterwards, and closing a closed socket is not an error.                *)
(***************************************************************************)
sock_close(s) == "closed"

(***************************************************************************)
(* SocketMailbox.close                                                     *)
(***************************************************************************)
\* close without "if self.sock": None has no attribute close
OutCloseUnguarded(o) ==
    /\ IF outSock[o] # None
       THEN /\ outSock' = [outSock EXCEPT ![o] = sock_close(@)]
            /\ cliEnd' = [cliEnd EXCEPT ![o] = IF @ = "open" THEN "closed" ELSE @]
            /\ exc' = "none"
       ELSE /\ UNCHANGED <<outSock, cliEnd>>
            /\ exc' = "AttributeError"
    /\ arrived' = <<>>
    /\ reclosed' = (outSock[o] \in {None, "closed"})
    /\ UNCHANGED <<srvActor, srvType, srvSock, srvFd, clients, handlers,
                   callbacks, outActor, outType, srvEnd, peerFd,
                   wire, rxbuf, owed, torn, nputs, queueVars>>
    /\ UNCHANGED <<wakeVars, appVars, regVars>>

OutClose(o) ==
    /\ IF outSock[o] # None
       THEN /\ outSock' = [outSock EXCEPT ![o] = sock_close(@)]
            /\ cliEnd' = [cliEnd EXCEPT ![o] = IF @ = "open" THEN "closed" ELSE @]
       ELSE UNCHANGED <<outSock, cliEnd>>
    /\ exc' = "none"
    /\ arrived' = <<>>
    /\ reclosed' = (outSock[o] \in {None, "closed"})
    /\ UNCHANGED <<srvActor, srvType, srvSock, srvFd, clients, handlers,
                   callbacks, outActor, outType, srvEnd, peerFd,
                   wire, rxbuf, owed, torn, nputs, queueVars>>
    /\ UNCHANGED <<wakeVars, appVars, regVars>>

(***************************************************************************)
(* SocketServerMailbox.close                                               *)
(***************************************************************************)
\* the accepted sockets that "for c in self.clients: c.close()" closes: the
\* loop runs over the keys of the dict, descriptor numbers, which have no
\* close(); the AttributeError is swallowed by the bare except
ClosedByLoop == {}

SrvClose ==
    /\ IF srvSock # None
       THEN /\ srvSock' = sock_close(srvSock)
            \* connections still in the backlog die with the listening socket
            /\ srvEnd' = [o \in Outboxes |->
                            IF o \in ClosedByLoop \/ srvEnd[o] = "pending"
                            THEN "closed" ELSE srvEnd[o]]
       ELSE UNCHANGED <<srvSock, srvEnd>>
    /\ exc' = "none"
    /\ arrived' = <<>>
    /\ reclosed' = (srvSock \in {None, "closed"})
    /\ UNCHANGED <<srvActor, srvType, srvFd, clients, handlers, callbacks,
                   outActor, outType, outSock, cliEnd, peerFd,
                   wire, rxbuf, owed, torn, nputs, queueVars>>
    /\ UNCHANGED <<wakeVars, appVars, regVars>>

(***************************************************************************)
(* Mailbox.on_message(fd, events) of the SocketServerMailbox, called by    *)
(* the reactor when fd is readable, with read_message inlined.             *)
(***************************************************************************)
\* the loop reads on after a full buffer
ReadsOnFull(chunk) == Len(chunk) >= DEFAULT_BUFFER_SIZE

\* the condition of the loop that reads on after the first recv
ReadsOn(chunk) == Len(chunk) > DEFAULT_BUFFER_SIZE

RECURSIVE RecvLoop(_, _, _)
\* the while loop after the first recv: every further recv returns what is
\* there, up to the buffer size; an empty chunk ends it
RecvLoop(chunk, msg, rest) ==
    IF ReadsOn(chunk)
    THEN LET more == SubSeq(rest, 1, Min(Len(rest), DEFAULT_BUFFER_SIZE)) IN
         IF more = <<>>
         THEN [msg |-> msg, rest |-> rest]
         ELSE RecvLoop(more, msg \o more, SubSeq(rest, Len(more) + 1, Len(rest)))
    ELSE [msg |-> msg, rest |-> rest]

\* "if message:" of on_message
Dispatches(message) == Truthy(message)

\* the accepted socket is recorded under the descriptor of the event
AcceptUnderEventFd(fd) ==
    /\ fd = srvFd
    /\ srvSock = "open"
    /\ \E o \in Outboxes :
          /\ srvEnd[o] = "pending"
          /\ LET nfd == LowestFree(OpenFds) IN
                /\ srvEnd' = [srvEnd EXCEPT ![o] = "open"]
                /\ peerFd' = [peerFd EXCEPT ![o] = nfd]
                /\ clients' = [clients EXCEPT ![fd] = o]
                /\ handlers' = handlers \cup {nfd}
    /\ exc' = "none"
    /\ arrived' = <<>>
    /\ UNCHANGED <<wire, rxbuf, owed>>

Accept(fd) ==
    /\ fd = srvFd
    /\ srvSock = "open"
    /\ \E o \in Outboxes :
          /\ srvEnd[o] = "pending"
          /\ LET nfd == LowestFree(OpenFds) IN
                /\ srvEnd' = [srvEnd EXCEPT ![o] = "open"]
                /\ peerFd' = [peerFd EXCEPT ![o] = nfd]
                /\ clients' = [clients EXCEPT ![nfd] = o]
                /\ handlers' = handlers \cup {nfd}
    /\ exc' = "none"
    /\ arrived' = <<>>
    /\ UNCHANGED <<wire, rxbuf, owed>>

\* no "if not chunk": the empty chunk goes to pickle.loads
DisconnectDecodes(fd, o) ==
    /\ exc' = loads(<<>>).exc
    /\ arrived' = <<>>
    /\ UNCHANGED <<handlers, srvEnd, clients, peerFd, wire, rxbuf, owed>>

\* the client is closed and its handler stays
DisconnectKeepsHandler(fd, o) ==
    /\ srvEnd' = [srvEnd EXCEPT ![o] = "closed"]
    /\ exc' = "none"
    /\ arrived' = <<>>
    /\ UNCHANGED <<handlers, clients, peerFd, wire, rxbuf, owed>>

\* "if not chunk": ioloop.remove_handler(client); client.close()
Disconnect(fd, o) ==
    /\ handlers' = handlers \ {fd}
    /\ srvEnd' = [srvEnd EXCEPT ![o] = "closed"]
    /\ exc' = "none"
    /\ arrived' = <<>>
    /\ UNCHANGED <<clients, peerFd, wire, rxbuf, owed>>

\* the socket.error of recv is not caught
RecvErrorRaises(fd, o) ==
    /\ exc' = "socket.error"
    /\ arrived' = <<>>
    /\ UNCHANGED <<handlers, srvEnd, clients, peerFd, wire, rxbuf, owed>>

\* recv raises socket.error: chunk = None, and "if not chunk" does the rest
RecvError(fd, o) == Disconnect(fd, o)

Receive(fd, o) ==
    \E k \in 1..Min(Len(wire[o]), DEFAULT_BUFFER_SIZE) :
       LET chunk == SubSeq(wire[o], 1, k)
           got == RecvLoop(chunk, chunk, SubSeq(wire[o], k + 1, Len(wire[o])))
           res == loads(got.msg)
       IN  /\ wire' = [wire EXCEPT ![o] = got.rest]
           /\ exc' = res.exc
           /\ arrived' = IF res.exc = "none" /\ Dispatches(res.obj)
                         THEN <<res.obj>> ELSE <<>>
           /\ rxbuf' = [rxbuf EXCEPT ![o] = IF res.exc = "none" THEN <<>>
                                            ELSE @ \o got.msg]
           /\ owed' = [owed EXCEPT ![o] =
                          IF arrived' # <<>> /\ @ # <<>> /\ Head(@) = arrived'[1]
                          THEN Tail(@) ELSE @]
           /\ UNCHANGED <<clients, handlers, srvEnd, peerFd>>

OnMessage(fd) ==
    /\ fd \in handlers
    /\ IF clients[fd] = None
       THEN Accept(fd)
       ELSE LET o == clients[fd] IN
            /\ srvEnd[o] = "open"
            /\ peerFd[o] = fd
            /\ \/ RecvError(fd, o)         \* recv raises socket.error (a reset)
               \/ /\ wire[o] = <<>>        \* recv returns '': the peer has closed
                  /\ cliEnd[o] = "closed"
                  /\ Disconnect(fd, o)
               \/ Receive(fd, o)
    /\ UNCHANGED <<srvActor, srvType, srvSock, srvFd, callbacks, outActor,
                   outType, outSock, cliEnd, torn, nputs, queueVars>>
    /\ UNCHANGED <<wakeVars, appVars, regVars>>
    /\ reclosed' = FALSE

(***************************************************************************)
(* QueueMailbox.put: queue.put((self.id, request)) inside try/except.      *)
(* Queue.put raises on a closed queue and, being called without a timeout, *)
(* waits for room on a full one.                                           *)
(***************************************************************************)
QueueFull == Len(queue) >= QueueMaxSize

QPut(q, m) ==
    /\ nqputs < MaxQPuts
    /\ qblocked[q] = <<>>
    /\ nqputs' = nqputs + 1
    /\ IF qclosed
       THEN UNCHANGED <<queue, qblocked, qowed>>    \* raised, and swallowed
       ELSE IF QueueFull
       THEN /\ qblocked' = [qblocked EXCEPT ![q] = <<m>>]
            /\ UNCHANGED <<queue, qowed>>
       ELSE /\ queue' = Append(queue, <<q, m>>)
            /\ qowed' = [qowed EXCEPT ![q] = Append(@, m)]
            /\ UNCHANGED qblocked
    /\ exc' = "none"
    /\ arrived' = <<>>
    /\ UNCHANGED <<sockVars, qclosed, polled, ioFds>>
    /\ UNCHANGED <<wakeVars, appVars, regVars>>
    /\ reclosed' = FALSE

\* a put that waited for room goes on when there is room
QPutResume(q) ==
    /\ qblocked[q] # <<>>
    /\ ~QueueFull
    /\ queue' = Append(queue, <<q, qblocked[q][1]>>)
    /\ qblocked' = [qblocked EXCEPT ![q] = <<>>]
    /\ qowed' = [qowed EXCEPT ![q] = Append(@, qblocked[q][1])]
    /\ exc' = "none"
    /\ arrived' = <<>>
    /\ UNCHANGED <<sockVars, qclosed, polled, nqputs, ioFds>>
    /\ UNCHANGED <<wakeVars, appVars, regVars>>
    /\ reclosed' = FALSE

(***************************************************************************)
(* Mailbox.close, which QueueMailbox inherits                              *)
(***************************************************************************)
QClose(q) ==
    /\ exc' = "none"
    /\ arrived' = <<>>
    /\ UNCHANGED <<sockVars, queueVars>>
    /\ UNCHANGED <<wakeVars, appVars, regVars>>
    /\ reclosed' = FALSE

(***************************************************************************)
(* IOQueue.poll: queue.get(timeout), Empty and IOError giving ()           *)
(***************************************************************************)
\* what is still owed by the senders once a poll has returned events: a
\* pair that is the oldest one owed by its sender is owed no more
RECURSIVE Settle(_, _)
Settle(ow, events) ==
    IF events = <<>> THEN ow
    ELSE LET id == Head(events)[1]
             m == Head(events)[2]
         IN Settle(IF id \in QueueIds /\ ow[id] # <<>> /\ Head(ow[id]) = m
                   THEN [ow EXCEPT ![id] = Tail(@)]
                   ELSE ow,
                   Tail(events))

\* poll empties the queue and returns all of it
PollBatch ==
    /\ IF qclosed \/ queue = <<>>
       THEN polled' = <<>> /\ UNCHANGED queue
       ELSE polled' = queue /\ queue' = <<>>
    /\ qowed' = Settle(qowed, polled')
    /\ exc' = "none"
    /\ arrived' = <<>>
    /\ UNCHANGED <<sockVars, qclosed, qblocked, nqputs, ioFds>>
    /\ UNCHANGED <<wakeVars, appVars, regVars>>
    /\ reclosed' = FALSE

\* poll returns the pair put last
PollNewest ==
    /\ IF qclosed \/ queue = <<>>
       THEN polled' = <<>> /\ UNCHANGED queue
       ELSE /\ polled' = <<queue[Len(queue)]>>
            /\ queue' = SubSeq(queue, 1, Len(queue) - 1)
    /\ qowed' = Settle(qowed, polled')
    /\ exc' = "none"
    /\ arrived' = <<>>
    /\ UNCHANGED <<sockVars, qclosed, qblocked, nqputs, ioFds>>
    /\ UNCHANGED <<wakeVars, appVars, regVars>>
    /\ reclosed' = FALSE

Poll ==
    /\ IF qclosed \/ queue = <<>>
       THEN polled' = <<>> /\ UNCHANGED queue
       ELSE polled' = <<Head(queue)>> /\ queue' = Tail(queue)
    /\ qowed' = Settle(qowed, polled')
    /\ exc' = "none"
    /\ arrived' = <<>>
    /\ UNCHANGED <<sockVars, qclosed, qblocked, nqputs, ioFds>>
    /\ UNCHANGED <<wakeVars, appVars, regVars>>
    /\ reclosed' = FALSE

\* the queue is closed
QueueClose ==
    /\ ~qclosed
    /\ qclosed' = TRUE
    /\ UNCHANGED <<sockVars, queue, qblocked, polled, nqputs, qowed, ioFds, exc, arrived,
                   reclosed>>
    /\ UNCHANGED <<wakeVars, appVars, regVars>>

Next ==
    \/ \E impl \in {"worker"}, inbox \in {TRUE} : SrvRegister(impl, inbox)
    \/ \E o \in Outboxes, inbox \in {FALSE} : OutRegister(o, inbox)
    \/ \E o \in Outboxes, m \in Messages : Put(o, m)
    \/ \E o \in Outboxes : OutClose(o)
    \/ SrvClose
    \/ \E fd \in Fds : OnMessage(fd)
    \/ \E q \in QueueIds : QClose(q)

Spec == Init /\ [][Next]_vars

NextQueue ==
    \/ \E q \in QueueIds, m \in Messages : QPut(q, m)
    \/ \E q \in QueueIds : QPutResume(q)
    \/ \E q \in QueueIds : QClose(q)
    \/ Poll
    \/ QueueClose

SpecQueue == Init /\ [][NextQueue]_vars

(***************************************************************************)
(* The operations a mailbox of the other role refuses.                     *)
(***************************************************************************)
\* put sends on the listening socket, which is not connected
SrvPutSends(m) ==
    /\ exc' = IF srvSock = None THEN "AttributeError" ELSE "socket.error"
    /\ arrived' = <<>>
    /\ UNCHANGED <<sockVars, queueVars, wakeVars, appVars, regVars>>
    /\ reclosed' = FALSE

\* SocketServerMailbox.put
SrvPut(m) ==
    /\ exc' = "MailboxError"
    /\ arrived' = <<>>
    /\ UNCHANGED <<sockVars, queueVars, wakeVars, appVars, regVars>>
    /\ reclosed' = FALSE

\* SocketMailbox.read_message
OutReadMessage(o) ==
    /\ exc' = "MailboxError"
    /\ arrived' = <<>>
    /\ UNCHANGED <<sockVars, queueVars, wakeVars, appVars, regVars>>
    /\ reclosed' = FALSE

(***************************************************************************)
(* Registration in any role, any number of times.                          *)
(***************************************************************************)
NextReg ==
    \/ \E impl \in Impls, inbox \in BOOLEAN : SrvRegisterCall(impl, inbox)
    \/ \E o \in Outboxes, inbox \in BOOLEAN : OutRegisterCall(o, inbox)
    \/ \E q \in QueueIds, impl \in Impls, inbox \in BOOLEAN :
          QRegister(q, impl, inbox)
    \/ \E o \in Outboxes : OutClose(o)
    \/ SrvClose
    \/ \E m \in Messages : SrvPut(m)
    \/ \E o \in Outboxes : OutReadMessage(o)

SpecReg == Init /\ [][NextReg]_vars

(***************************************************************************)
(* SocketMailbox.__getstate__, which pickle calls when the mailbox is      *)
(* handed to another process.  The instance's __dict__ holds sock and      *)
(* _address, and actor and type once register has set them (None here      *)
(* before that, as the class attributes are).                              *)
(***************************************************************************)
\* self.__dict__ of an outbox
Dict(o) ==
    [sock |-> outSock[o], address |-> SrvAddress,
     actor |-> outActor[o], type |-> outType[o]]

\* d = self.__dict__, without the copy
getstateInPlace(dict) ==
    [live |-> [dict EXCEPT !.sock = None], state |-> [dict EXCEPT !.sock = None]]

\* d = self.__dict__.copy(); d['sock'] = None; return d.  live is what
\* self.__dict__ is afterwards.
getstate(dict) ==
    [live |-> dict, state |-> [dict EXCEPT !.sock = None]]

OutGetState(o) ==
    /\ LET got == getstate(Dict(o)) IN
          /\ transferred' = <<o, got.state>>
          /\ outSock' = [outSock EXCEPT ![o] = got.live.sock]
          /\ outActor' = [outActor EXCEPT ![o] = got.live.actor]
          /\ outType' = [outType EXCEPT ![o] = got.live.type]
    /\ exc' = "none"
    /\ arrived' = <<>>
    /\ reclosed' = FALSE
    /\ UNCHANGED <<srvActor, srvType, srvSock, srvFd, clients, handlers,
                   callbacks, cliEnd, srvEnd, peerFd,
                   wire, rxbuf, owed, torn, nputs, queueVars>>
    /\ UNCHANGED <<wakeVars, regVars, factVars, wsgiVars, testVars,
                   startVars, loopVars>>

NextHandOver ==
    \/ \E impl \in Impls, inbox \in BOOLEAN : SrvRegisterCall(impl, inbox)
    \/ \E o \in Outboxes, inbox \in BOOLEAN : OutRegisterCall(o, inbox)
    \/ \E o \in Outboxes : OutClose(o)
    \/ \E o \in Outboxes : OutGetState(o)

SpecHandOver == Init /\ [][NextHandOver]_vars

(***************************************************************************)
(* IOQueue.poll as the two steps of a blocking call, and the QueueWaker of *)
(* IOQueue.waker.                                                          *)
(***************************************************************************)
\* QueueWaker._fd
WakerFd == "waker"

\* the thread calls poll and waits in queue.get(timeout)
PollEnter ==
    /\ pollState = "idle"
    /\ pollState' = "blocked"
    /\ woken' = FALSE
    /\ UNCHANGED <<sockVars, queueVars, exc, arrived, reclosed, wblocked, regVars, appVars>>

\* get returns the oldest item, or raises IOError on a closed queue
PollReturn ==
    /\ pollState = "blocked"
    /\ qclosed \/ queue # <<>>
    /\ IF qclosed
       THEN polled' = <<>> /\ UNCHANGED queue
       ELSE polled' = <<Head(queue)>> /\ queue' = Tail(queue)
    /\ qowed' = Settle(qowed, polled')
    /\ pollState' = "idle"
    /\ woken' = FALSE
    /\ exc' = "none"
    /\ arrived' = <<>>
    /\ UNCHANGED <<sockVars, qclosed, qblocked, nqputs, ioFds, wblocked, regVars, appVars>>
    /\ reclosed' = FALSE

\* get is called without a timeout: it goes on waiting
PollWaitsOn ==
    /\ pollState = "blocked"
    /\ ~qclosed /\ queue = <<>>
    /\ UNCHANGED vars

\* the timeout passes with nothing in the queue: Empty
PollTimeout ==
    /\ pollState = "blocked"
    /\ ~qclosed /\ queue = <<>>
    /\ polled' = <<>>
    /\ pollState' = "idle"
    /\ woken' = FALSE
    /\ exc' = "none"
    /\ arrived' = <<>>
    /\ UNCHANGED <<sockVars, queue, qclosed, qblocked, nqputs, qowed, ioFds, wblocked,
                   regVars, appVars>>
    /\ reclosed' = FALSE

\* what Queue.put raises on a closed queue; wake catches IOError only
PutOnClosed == {"AssertionError", "ValueError"}

\* wake puts nothing into the queue
WakeNoSentinel ==
    /\ ~wblocked
    /\ woken' = (woken \/ pollState = "blocked")
    /\ exc' = "none"
    /\ arrived' = <<>>
    /\ UNCHANGED <<sockVars, queueVars, pollState, wblocked, regVars, appVars>>
    /\ reclosed' = FALSE

\* QueueWaker.wake
Wake ==
    /\ ~wblocked
    /\ woken' = (woken \/ pollState = "blocked")
    /\ IF qclosed
       THEN /\ exc' \in PutOnClosed
            /\ UNCHANGED <<queue, wblocked>>
       ELSE IF QueueFull
       THEN /\ wblocked' = TRUE
            /\ UNCHANGED <<queue, exc>>
       ELSE /\ queue' = Append(queue, <<WakerFd, None>>)
            /\ exc' = "none"
            /\ UNCHANGED wblocked
    /\ arrived' = <<>>
    /\ UNCHANGED <<sockVars, qclosed, qblocked, polled, nqputs, qowed, ioFds,
                   pollState, regVars, appVars>>
    /\ reclosed' = FALSE

\* a wake that waited for room goes on when there is room
WakeResume ==
    /\ wblocked
    /\ ~qclosed /\ ~QueueFull
    /\ queue' = Append(queue, <<WakerFd, None>>)
    /\ wblocked' = FALSE
    /\ exc' = "none"
    /\ arrived' = <<>>
    /\ UNCHANGED <<sockVars, qclosed, qblocked, polled, nqputs, qowed, ioFds,
                   pollState, woken, regVars, appVars>>
    /\ reclosed' = FALSE

\* QueueWaker.consume
Consume ==
    /\ exc' = "none"
    /\ arrived' = <<>>
    /\ UNCHANGED <<sockVars, queueVars, wakeVars, appVars, regVars>>
    /\ reclosed' = FALSE

NextWake ==
    \/ PollEnter
    \/ PollReturn
    \/ PollTimeout
    \/ Wake
    \/ WakeResume
    \/ Consume
    \/ \E q \in QueueIds, m \in Messages : QPut(q, m)
    \/ \E q \in QueueIds : QPutResume(q)
    \/ QueueClose

\* a thread waiting in get is given an item that is there
SpecWake == Init /\ [][NextWake]_vars /\ WF_vars(PollReturn)

\* and the time of a timeout (a number of seconds) passes
SpecPoll ==
    Init /\ [][NextWake]_vars /\ WF_vars(PollReturn) /\ WF_vars(PollTimeout)

(***************************************************************************)
(* Mailbox.on_message of a QueueMailbox, whose read_message returns the    *)
(* events it is given: the loop hands it what poll returned, the payload   *)
(* of a pair of its own or of the waker's.  In the queue the pairs whose   *)
(* payload is None are the waker's.                                        *)
(***************************************************************************)
\* on_message passes on whatever read_message returned
QDispatchesAll(event) == TRUE

\* 'if message': None is falsy
QDispatches(event) == event[1] # WakerFd /\ Dispatches(event[2])

QOnMessage(q) ==
    /\ q \in qHandlers
    /\ polled # <<>>
    /\ Head(polled)[1] \in {q, WakerFd}
    /\ handled' = <<Head(polled)>>
    /\ arrived' = IF QDispatches(Head(polled)) THEN <<Head(polled)[2]>>
                  ELSE <<>>
    /\ polled' = Tail(polled)
    /\ exc' = "none"
    /\ UNCHANGED <<sockVars, queue, qclosed, qblocked, nqputs, qowed, ioFds,
                   wakeVars, regVars, factVars, wsgiVars, testVars,
                   startVars, pickleVars>>
    /\ reclosed' = FALSE

\* the loop polls again when it has handled what the last poll returned
NextDeliver ==
    \/ \E q \in QueueIds : QRegister(q, "worker", TRUE)
    \/ \E q \in QueueIds, m \in Messages : QPut(q, m)
    \/ \E q \in QueueIds : QPutResume(q)
    \/ Wake
    \/ WakeResume
    \/ polled = <<>> /\ Poll
    \/ \E q \in QueueIds : QOnMessage(q)
    \/ QueueClose

SpecDeliver == Init /\ [][NextDeliver]_vars

(***************************************************************************)
(* The inbox reading what its peers wrote ahead of it: a worker's inbox is *)
(* registered and listening, both outboxes are registered and connected,   *)
(* and one of them has put up to MaxBurst messages, every send writing all *)
(* of its bytes, before the inbox handles its first event.                 *)
(***************************************************************************)
Bursts == UNION {[1..n -> Messages] : n \in 0..MaxBurst}

\* the bytes the puts of ms write, one pickle after the other
RECURSIVE Written(_)
Written(ms) == IF ms = <<>> THEN <<>> ELSE dumps(Head(ms)) \o Written(Tail(ms))

InitRecv ==
    /\ srvActor = "worker"
    /\ srvType = "inbox"
    /\ srvSock = "open"
    /\ srvFd = 1
    /\ clients = [f \in Fds |-> None]
    /\ handlers = {1}
    /\ callbacks = <<<<"inbox_address", SrvAddress>>>>
    /\ outActor = [o \in Outboxes |-> "worker"]
    /\ outType = [o \in Outboxes |-> "outbox"]
    /\ outSock = [o \in Outboxes |-> "open"]
    /\ cliEnd = [o \in Outboxes |-> "open"]
    /\ srvEnd = [o \in Outboxes |-> "pending"]
    /\ peerFd = [o \in Outboxes |-> 0]
    /\ \E b \in Outboxes, ms \in Bursts :
          owed = [o \in Outboxes |-> IF o = b THEN ms ELSE <<>>]
    /\ wire = [o \in Outboxes |-> Written(owed[o])]
    /\ rxbuf = [o \in Outboxes |-> <<>>]
    /\ torn = [o \in Outboxes |-> FALSE]
    /\ nputs = MaxPuts
    /\ InitQueue
    /\ exc = "none"
    /\ arrived = <<>>
    /\ reclosed = FALSE
    /\ pollState = "idle"
    /\ wblocked = FALSE
    /\ woken = FALSE
    /\ leaked = {}
    /\ nregs = MaxRegs
    /\ nconn = Cardinality(Outboxes)
    /\ qActor = [q \in QueueIds |-> None]
    /\ qType = [q \in QueueIds |-> None]
    /\ qHandlers = {}
    /\ InitApp

NextRecv ==
    \/ \E fd \in Fds : OnMessage(fd)
    \/ \E o \in Outboxes : OutClose(o)

SpecRecv == InitRecv /\ [][NextRecv]_vars

(***************************************************************************)
(* IOQueue.register, IOQueue.unregister and IOQueue.modify, on the ids a   *)
(* reactor registers: those of the queue mailboxes and of the waker.       *)
(***************************************************************************)
IOIds == QueueIds \cup {WakerFd}

\* self._fds.add(fd)
IORegister(fd) ==
    /\ ioFds' = ioFds \cup {fd}
    /\ exc' = "none"
    /\ arrived' = <<>>
    /\ UNCHANGED <<sockVars, queue, qclosed, qblocked, polled, nqputs, qowed>>
    /\ UNCHANGED <<wakeVars, appVars, regVars>>
    /\ reclosed' = FALSE

\* unregister forgets the pairs queued under fd as well
IOUnregisterDrops(fd) ==
    /\ ioFds' = ioFds \ {fd}
    /\ queue' = SelectSeq(queue, LAMBDA e : e[1] # fd)
    /\ exc' = "none"
    /\ arrived' = <<>>
    /\ UNCHANGED <<sockVars, qclosed, qblocked, polled, nqputs, qowed>>
    /\ UNCHANGED <<wakeVars, appVars, regVars>>
    /\ reclosed' = FALSE

\* self._fds.discard(fd)
IOUnregister(fd) ==
    /\ ioFds' = ioFds \ {fd}
    /\ exc' = "none"
    /\ arrived' = <<>>
    /\ UNCHANGED <<sockVars, queue, qclosed, qblocked, polled, nqputs, qowed>>
    /\ UNCHANGED <<wakeVars, appVars, regVars>>
    /\ reclosed' = FALSE

\* modify removes with set.remove, which raises KeyError on an id that is
\* not in the set
IOModifyRemoves(fd) ==
    /\ IF fd \in ioFds
       THEN ioFds' = (ioFds \ {fd}) \cup {fd} /\ exc' = "none"
       ELSE ioFds' = ioFds /\ exc' = "KeyError"
    /\ arrived' = <<>>
    /\ UNCHANGED <<sockVars, queue, qclosed, qblocked, polled, nqputs, qowed>>
    /\ UNCHANGED <<wakeVars, appVars, regVars>>
    /\ reclosed' = FALSE

\* self.unregister(fd); self.register(fd, events)
IOModify(fd) ==
    /\ ioFds' = (ioFds \ {fd}) \cup {fd}
    /\ exc' = "none"
    /\ arrived' = <<>>
    /\ UNCHANGED <<sockVars, queue, qclosed, qblocked, polled, nqputs, qowed>>
    /\ UNCHANGED <<wakeVars, appVars, regVars>>
    /\ reclosed' = FALSE

NextIO ==
    \/ \E fd \in IOIds : IORegister(fd)
    \/ \E fd \in IOIds : IOUnregister(fd)
    \/ \E fd \in IOIds : IOModify(fd)
    \/ \E q \in QueueIds, m \in Messages : QPut(q, m)
    \/ \E q \in QueueIds : QPutResume(q)
    \/ Poll
    \/ QueueClose

SpecIO == Init /\ [][NextIO]_vars

(***************************************************************************)
(* mailbox(address, id, queue), the factory of the mailboxes, on arguments *)
(* that are given (truthy) or None.                                        *)
(***************************************************************************)
Addresses == {None, "sockaddr"}
Ids == {None} \cup QueueIds
Queues == {None, "queue"}

\* what the call raises and what it returns
mailbox(address, id, que) ==
    IF address # None
    THEN IF id # None
         THEN [exc |-> "ValueError", made |-> None]
         ELSE [exc |-> "none", made |-> "SocketMailbox"]
    ELSE IF id # None /\ que # None
    THEN [exc |-> "none", made |-> "QueueMailbox"]
    \* "elif stream:": no name stream is defined in the function or the module
    ELSE [exc |-> "NameError", made |-> None]

MailboxCall(address, id, que) ==
    /\ made' = mailbox(address, id, que).made
    /\ exc' = mailbox(address, id, que).exc
    /\ arrived' = <<>>
    /\ reclosed' = FALSE
    /\ UNCHANGED <<sockVars, queueVars, wakeVars, regVars, loopVars, pickleVars,
                   wsgiVars, testVars, startVars>>

\* mailboxes are made, registered and closed
NextFactory ==
    \/ \E address \in Addresses, id \in Ids, que \in Queues :
          MailboxCall(address, id, que)
    \/ \E impl \in Impls, inbox \in BOOLEAN : SrvRegisterCall(impl, inbox)
    \/ \E o \in Outboxes, inbox \in BOOLEAN : OutRegisterCall(o, inbox)
    \/ \E q \in QueueIds, impl \in Impls, inbox \in BOOLEAN :
          QRegister(q, impl, inbox)
    \/ \E o \in Outboxes : OutClose(o)
    \/ SrvClose

SpecFactory == Init /\ [][NextFactory]_vars

(***************************************************************************)
(* WsgiResponse of pulsar/apps/wsgi/wrappers.py: the content property,     *)
(* __iter__, get_headers and the content_type property.  A chunk is a str  *)
(* or, once encoded, bytes.                                                *)
(***************************************************************************)
Str(t) == [bytes |-> FALSE, text |-> t]
Bytes(t) == [bytes |-> TRUE, text |-> t]

\* what is assigned to content: None, a str, bytes, a tuple of bytes, and a
\* generator of str
Contents ==
    { [type |-> "None", chunks |-> <<>>],
      [type |-> "str", chunks |-> <<Str("a")>>],
      [type |-> "bytes", chunks |-> <<Bytes("a")>>],
      [type |-> "tuple", chunks |-> <<Bytes("a"), Bytes("a")>>],
      [type |-> "generator", chunks |-> <<Str("a")>>] }

JSON_CONTENT_TYPES == {"application/json"}
ContentTypes == {None, "application/json", "text/html"}

\* len() of a chunk
ChunkLen(c) == IF c.text = "" THEN 0 ELSE IF c.text = "a" THEN 1 ELSE 2

RECURSIVE TotalLen(_)
TotalLen(chunks) ==
    IF chunks = <<>> THEN 0 ELSE ChunkLen(Head(chunks)) + TotalLen(Tail(chunks))

\* the setter takes the content whether iteration has started or not
SetContentAnytime(c) ==
    /\ content' = [streamed |-> c.type = "generator",
                   chunks |-> IF c.type = "str" THEN <<Bytes(c.chunks[1].text)>>
                              ELSE c.chunks]
    /\ encoding' = IF c.type = "str" /\ encoding = None THEN "utf-8"
                   ELSE encoding
    /\ exc' = "none"
    /\ arrived' = <<>>
    /\ reclosed' = FALSE
    /\ UNCHANGED <<started, contentType, contentLength>>
    /\ UNCHANGED <<sockVars, queueVars, wakeVars, regVars, loopVars, pickleVars,
                   factVars, testVars, startVars>>

\* WsgiResponse._set_content
SetContent(c) ==
    /\ IF ~started
       THEN /\ content' =
                 [streamed |-> c.type = "generator",
                  chunks |-> IF c.type = "str" THEN <<Bytes(c.chunks[1].text)>>
                             ELSE c.chunks]
            /\ encoding' = IF c.type = "str" /\ encoding = None THEN "utf-8"
                           ELSE encoding
            /\ exc' = "none"
       ELSE /\ exc' = "RuntimeError"
            /\ UNCHANGED <<content, encoding>>
    /\ arrived' = <<>>
    /\ reclosed' = FALSE
    /\ UNCHANGED <<started, contentType, contentLength>>
    /\ UNCHANGED <<sockVars, queueVars, wakeVars, regVars, loopVars, pickleVars,
                   factVars, testVars, startVars>>

\* WsgiResponse.__iter__
Iter ==
    /\ IF started
       THEN exc' = "RuntimeError" /\ UNCHANGED started
       ELSE started' = TRUE /\ exc' = "none"
    /\ arrived' = <<>>
    /\ reclosed' = FALSE
    /\ UNCHANGED <<content, encoding, contentType, contentLength>>
    /\ UNCHANGED <<sockVars, queueVars, wakeVars, regVars, loopVars, pickleVars,
                   factVars, testVars, startVars>>

\* WsgiResponse.get_headers; empty is what has_empty_content(status_code,
\* method) returns
GetHeaders(empty) ==
    /\ IF empty
       THEN /\ contentType' = None
            /\ contentLength' = <<>>
            /\ content' = [streamed |-> FALSE, chunks |-> <<>>]
       ELSE /\ IF ~content.streamed
               THEN LET cl == TotalLen(content.chunks) IN
                    IF cl = 0 /\ contentType \in JSON_CONTENT_TYPES
                    THEN /\ content' = [streamed |-> FALSE,
                                        chunks |-> <<Bytes("{}")>>]
                         /\ contentLength' = <<ChunkLen(Bytes("{}"))>>
                    ELSE /\ contentLength' = <<cl>>
                         /\ UNCHANGED content
               ELSE UNCHANGED <<content, contentLength>>
            /\ contentType' = IF contentType = None /\ encoding # None
                              THEN "text/plain" ELSE contentType
    /\ exc' = "none"
    /\ arrived' = <<>>
    /\ reclosed' = FALSE
    /\ UNCHANGED <<started, encoding>>
    /\ UNCHANGED <<sockVars, queueVars, wakeVars, regVars, loopVars, pickleVars,
                   factVars, testVars, startVars>>

\* WsgiResponse._set_content_type
SetContentType(typ) ==
    /\ contentType' = typ
    /\ exc' = "none"
    /\ arrived' = <<>>
    /\ reclosed' = FALSE
    /\ UNCHANGED <<started, content, encoding, contentLength>>
    /\ UNCHANGED <<sockVars, queueVars, wakeVars, regVars, loopVars, pickleVars,
                   factVars, testVars, startVars>>

NextWsgi ==
    \/ \E c \in Contents : SetContent(c)
    \/ Iter
    \/ \E empty \in BOOLEAN : GetHeaders(empty)
    \/ \E typ \in ContentTypes : SetContentType(typ)

SpecWsgi == Init /\ [][NextWsgi]_vars

(***************************************************************************)
(* TestRequest.run_test of pulsar/apps/test/case.py, a generator: it calls *)
(* run_test_function for a phase, yields the outcome, and goes on when it  *)
(* is resumed with the outcome's result.                                   *)
(***************************************************************************)
Phases == <<"_pre_setup", "setUp", "test", "tearDown", "_post_teardown">>

\* outcome.result: no failure, a failure holding a test.failureException,
\* a failure holding another Exception
Results == {"ok", "failure", "error"}

\* TestRequest.add_failure: its return value, and what it tells the runner
AddFailure(result) == result # "ok"
Reported(result) == IF result = "failure" THEN "addFailure" ELSE "addError"

\* tearDown is left out when the test function has failed
NextPhaseNoTearDown(phase, failed, post) ==
    LET last == IF post THEN "_post_teardown" ELSE "stopTest" IN
    CASE phase = "_pre_setup" -> IF failed THEN last ELSE "setUp"
      [] phase = "setUp" -> IF failed THEN last ELSE "test"
      [] phase = "test" -> IF failed THEN last ELSE "tearDown"
      [] phase = "tearDown" -> last
      [] phase = "_post_teardown" -> "stopTest"

\* what run_test goes on with after a phase, given whether add_failure took
\* its outcome for a failure and whether the test has a _post_teardown
NextPhase(phase, failed, post) ==
    LET last == IF post THEN "_post_teardown" ELSE "stopTest" IN
    CASE phase = "_pre_setup" -> IF failed THEN last ELSE "setUp"
      [] phase = "setUp" -> IF failed THEN last ELSE "test"
      [] phase = "test" -> "tearDown"
      [] phase = "tearDown" -> last
      [] phase = "_post_teardown" -> "stopTest"

\* the local success after a phase: "success = not self.add_failure(...)"
\* after _pre_setup and the test function, "success = False" on a failure
\* after the others
Success(phase, failed, succ) ==
    IF phase \in {"_pre_setup", "test"} THEN ~failed ELSE succ /\ ~failed

\* run_test is called and runs to its first yield, or to its end when the
\* test is skipped
RunTest(pre, post, skip) ==
    /\ tpc \in {"idle", "done"}
    /\ tcase' = [pre |-> pre, post |-> post, skip |-> skip]
    /\ failures' = {}
    /\ IF skip
       THEN /\ reports' = <<"startTest", "addSkip">>
            /\ success' = FALSE
            /\ ran' = <<>>
            /\ tpc' = "done"
       ELSE /\ reports' = <<"startTest">>
            /\ success' = TRUE
            /\ ran' = <<IF pre THEN "_pre_setup" ELSE "setUp">>
            /\ tpc' = IF pre THEN "_pre_setup" ELSE "setUp"
    /\ exc' = "none"
    /\ arrived' = <<>>
    /\ reclosed' = FALSE
    /\ UNCHANGED <<sockVars, queueVars, wakeVars, regVars, loopVars, pickleVars,
                   factVars, wsgiVars, startVars>>

\* run_test is resumed after a yield: add_failure on the outcome's result,
\* then on to the next yield or to the end
Resume(result) ==
    /\ tpc \notin {"idle", "done"}
    /\ LET failed == AddFailure(result)
           nxt == NextPhase(tpc, failed, tcase.post)
           succ == Success(tpc, failed, success)
           told == IF failed THEN Append(reports, Reported(result))
                   ELSE reports
       IN /\ failures' = IF failed THEN failures \cup {tpc} ELSE failures
          /\ success' = succ
          /\ IF nxt = "stopTest"
             THEN /\ tpc' = "done"
                  /\ ran' = ran
                  /\ reports' = told \o <<"stopTest">>
                                     \o (IF succ THEN <<"addSuccess">> ELSE <<>>)
             ELSE /\ tpc' = nxt
                  /\ ran' = Append(ran, nxt)
                  /\ reports' = told
    /\ exc' = "none"
    /\ arrived' = <<>>
    /\ reclosed' = FALSE
    /\ UNCHANGED tcase
    /\ UNCHANGED <<sockVars, queueVars, wakeVars, regVars, loopVars, pickleVars,
                   factVars, wsgiVars, startVars>>

NextTest ==
    \/ \E pre \in BOOLEAN, post \in BOOLEAN, skip \in BOOLEAN :
          RunTest(pre, post, skip)
    \/ \E result \in Results : Resume(result)

SpecTest == Init /\ [][NextTest]_vars

\* The test classes start is given: whether test_method finds setUpClass and
\* tearDownClass, __unittest_skip__, and countTestCases()
TestClasses ==
    [setUpClass : BOOLEAN, tearDownClass : BOOLEAN, skip : BOOLEAN,
     tests : 0..MaxTests]

\* the number of test functions start has handed out so far
TestsRun(done) == Len(SelectSeq(done, LAMBDA s : s = "test"))

\* tearDownClass is left out when setUpClass failed
FollowingStepStops(step, stop, cls, left) ==
    LET down == IF cls.tearDownClass /\ ~cls.skip THEN "tearDownClass"
                ELSE "CLEAR_ERRORS"
        tests == IF left > 0 THEN "test" ELSE down
    IN CASE step = "start" ->
               IF cls.tests = 0 THEN "send"
               ELSE IF cls.setUpClass /\ ~cls.skip THEN "setUpClass"
               ELSE tests
         [] step = "setUpClass" -> IF stop THEN "CLEAR_ERRORS" ELSE tests
         [] step = "test" -> tests
         [] step = "tearDownClass" -> "CLEAR_ERRORS"
         [] OTHER -> "send"

\* What start does after the step it stands at: the next thing it yields, or
\* "send" when it falls through to worker.send.  left is the number of test
\* functions not handed out yet, stop the local should_stop.
FollowingStep(step, stop, cls, left) ==
    LET down == IF cls.tearDownClass /\ ~cls.skip THEN "tearDownClass"
                ELSE "CLEAR_ERRORS"
        tests == IF left > 0 THEN "test" ELSE down
    IN CASE step = "start" ->
               IF cls.tests = 0 THEN "send"
               ELSE IF cls.setUpClass /\ ~cls.skip THEN "setUpClass"
               ELSE tests
         [] step = "setUpClass" -> IF stop THEN down ELSE tests
         [] step = "test" -> tests
         [] step = "tearDownClass" -> "CLEAR_ERRORS"
         [] OTHER -> "send"

\* start: up to its first yield, or to worker.send when the class has no
\* test cases
Start(cls) ==
    /\ spc \in {"idle", "done"}
    /\ testcls' = cls
    /\ should_stop' = FALSE
    /\ LET nxt == FollowingStep("start", FALSE, cls, cls.tests)
       IN /\ steps' = <<nxt>>
          /\ spc' = IF nxt = "send" THEN "done" ELSE nxt
    /\ exc' = "none"
    /\ arrived' = <<>>
    /\ reclosed' = FALSE
    /\ UNCHANGED <<sockVars, queueVars, wakeVars, regVars, loopVars, pickleVars,
                   factVars, wsgiVars, testVars>>

\* start is resumed after a yield; result is the outcome of what it yielded,
\* which it looks at after setUpClass and tearDownClass only
StartResume(result) ==
    /\ spc \notin {"idle", "done"}
    /\ LET stop == IF spc = "setUpClass" THEN AddFailure(result)
                   ELSE should_stop
           nxt == FollowingStep(spc, stop, testcls,
                                testcls.tests - TestsRun(steps))
       IN /\ should_stop' = stop
          /\ steps' = Append(steps, nxt)
          /\ spc' = IF nxt = "send" THEN "done" ELSE nxt
    /\ exc' = "none"
    /\ arrived' = <<>>
    /\ reclosed' = FALSE
    /\ UNCHANGED testcls
    /\ UNCHANGED <<sockVars, queueVars, wakeVars, regVars, loopVars, pickleVars,
                   factVars, wsgiVars, testVars>>

NextStart ==
    \/ \E cls \in TestClasses : Start(cls)
    \/ \E result \in Results : StartResume(result)

SpecStart == Init /\ [][NextStart]_vars

(***************************************************************************)
(* Helpers of the properties.                                              *)
(***************************************************************************)
\* this step is a read from connection o: bytes left its wire
ReadStep(o) == Len(wire'[o]) < Len(wire[o])
\* the bytes that read returned
Chunk(o) == SubSeq(wire[o], 1, Len(wire[o]) - Len(wire'[o]))

AllTruthy(ms) == \A i \in DOMAIN ms : Truthy(ms[i])

\* everything but the outcome of the last call
NoChange == UNCHANGED <<sockVars, queueVars>>

\* the phases run so far, and the place of a phase in the order of phases
Ran == {ran[i] : i \in DOMAIN ran}
PhaseNo(phase) == CHOOSE i \in DOMAIN Phases : Phases[i] = phase

\* the messages of the pairs in que that carry the id q, oldest first
MessagesOf(q, que) ==
    LET own == SelectSeq(que, LAMBDA e : e[1] = q)
    IN [i \in 1..Len(own) |-> own[i][2]]

(***************************************************************************)
(* C1: on every connection the messages given to message_arrived are the   *)
(* messages put, in order and once each, however the bytes are split or    *)
(* coalesced into reads.  Stated for truthy messages written in full: once *)
(* every byte written on a connection has been read, none of its messages  *)
(* is still owed to the actor.                                             *)
(***************************************************************************)
C1_AllSentAreDelivered ==
    \A o \in Outboxes :
        (wire[o] = <<>> /\ ~torn[o] /\ AllTruthy(owed[o])) => owed[o] = <<>>

(***************************************************************************)
(* C2: when the reads so far returned only a strict prefix of one message, *)
(* the read that returns its remaining bytes gives exactly that message to *)
(* the actor.                                                              *)
(***************************************************************************)
C2_CompletedMessageIsDispatched ==
    [][\A o \in Outboxes :
          ( /\ ReadStep(o)
            /\ rxbuf[o] # <<>>
            /\ owed[o] # <<>>
            /\ Truthy(Head(owed[o]))
            /\ rxbuf[o] \o Chunk(o) = dumps(Head(owed[o])) )
          => arrived' = <<Head(owed[o])>>]_vars

(***************************************************************************)
(* C3: when one read returns the bytes of two messages sent back to back,  *)
(* both are given to the actor: neither is owed any more after that read.  *)
(***************************************************************************)
C3_CoalescedMessagesAllDispatched ==
    [][\A o \in Outboxes :
          ( /\ ReadStep(o)
            /\ rxbuf[o] = <<>>
            /\ Len(owed[o]) >= 2
            /\ Truthy(owed[o][1]) /\ Truthy(owed[o][2])
            /\ Chunk(o) = dumps(owed[o][1]) \o dumps(owed[o][2]) )
          => owed'[o] = Tail(Tail(owed[o]))]_vars

(***************************************************************************)
(* C4: framing round trip, independent of the chunking: the bytes written  *)
(* for a payload, read in any split, yield that payload and leave nothing  *)
(* behind; so the bytes read since a payload was last yielded are never a  *)
(* whole serialized payload.                                               *)
(***************************************************************************)
C4_NoWholePayloadLeftUnyielded ==
    \A o \in Outboxes : \A m \in Messages : rxbuf[o] # dumps(m)

(***************************************************************************)
(* C5: after a disconnect (a read of zero bytes) the peer's socket is      *)
(* closed, its handler removed and its entry removed from clients.         *)
(***************************************************************************)
C5_DisconnectedPeerLeavesClients ==
    \A o \in Outboxes :
        (srvEnd[o] = "closed" /\ peerFd[o] # 0) => \A f \in Fds : clients[f] # o

(***************************************************************************)
(* C6: after SocketServerMailbox.close() the listening socket and every    *)
(* accepted peer socket are closed.                                        *)
(***************************************************************************)
C6_CloseClosesEveryPeer ==
    srvSock = "closed" => \A o \in Outboxes : srvEnd[o] # "open"

(***************************************************************************)
(* C7: close() is idempotent for every kind of mailbox: a close() after a  *)
(* completed close(), or on a mailbox that was never registered, raises    *)
(* nothing and changes no state.                                           *)
(***************************************************************************)
C7_CloseIsIdempotent ==
    [][ ( \/ \E q \in QueueIds : QClose(q)
          \/ \E o \in Outboxes : outSock[o] \in {None, "closed"} /\ OutClose(o)
          \/ srvSock \in {None, "closed"} /\ SrvClose )
        => (NoChange /\ exc' = "none") ]_vars

\* the inbox and an outbox are closed, another outbox was never registered,
\* and close() has just been called again on one of them
C7_ClosedAgain ==
    /\ reclosed
    /\ srvSock = "closed"
    /\ \E o \in Outboxes : outSock[o] = "closed"
    /\ \E o \in Outboxes : outSock[o] = None
    /\ exc = "none"

(***************************************************************************)
(* C8: once a send on an outbox's connection has failed, the outbox is     *)
(* closed and every later put fails with the mailbox-closed error.         *)
(***************************************************************************)
C8_PutAfterFailureIsMailboxClosed ==
    [][\A o \in Outboxes : \A m \in Messages :
          (Put(o, m) /\ cliEnd[o] = "dead")
          => (outSock[o] = "closed" /\ exc' = "MailboxError")]_vars

(***************************************************************************)
(* C9: when put returns without error, every byte of the serialized        *)
(* message has been written to the socket.                                 *)
(***************************************************************************)
C9_PutWritesEveryByte ==
    [][\A o \in Outboxes : \A m \in Messages :
          (Put(o, m) /\ exc' = "none") => wire'[o] = wire[o] \o dumps(m)]_vars

(***************************************************************************)
(* C10: QueueMailbox.put never raises and always returns: on a closed or   *)
(* full queue it returns with the message dropped and the queue unchanged, *)
(* otherwise it enqueues exactly (id, message).                            *)
(***************************************************************************)
C10_QueuePutAlwaysReturns ==
    [][\A q \in QueueIds : \A m \in Messages :
          QPut(q, m)
          => /\ exc' = "none"
             /\ qblocked'[q] = <<>>
             /\ queue' = IF qclosed \/ QueueFull THEN queue
                         ELSE Append(queue, <<q, m>>)]_vars

(***************************************************************************)
(* C11: a call of IOQueue.poll returns the empty sequence or exactly one   *)
(* event; the event is the oldest pair of the queue and the call removes   *)
(* it; the empty sequence is returned exactly when the queue has no pair   *)
(* to give.                                                                *)
(***************************************************************************)
C11_PollReturnsOldestOrNothing ==
    [][Poll => /\ Len(polled') <= 1
               /\ IF ~qclosed /\ queue # <<>>
                  THEN polled' = <<Head(queue)>> /\ queue' = Tail(queue)
                  ELSE polled' = <<>> /\ queue' = queue]_vars

\* poll has returned an event and left a younger one in the queue
C11_PolledOneOfSeveral == Len(polled) = 1 /\ queue # <<>>

(***************************************************************************)
(* C12: a poll that is blocked when wake() is called eventually returns;   *)
(* what wake() puts into the queue is exactly the pair (waker id, None);   *)
(* consume() changes no state.                                             *)
(***************************************************************************)
C12_WakeEndsPoll ==
    /\ (woken /\ pollState = "blocked") ~> (pollState = "idle")
    /\ [][((Wake \/ WakeResume) /\ queue' # queue)
           => queue' = Append(queue, <<WakerFd, None>>)]_vars
    /\ [][Consume => UNCHANGED <<sockVars, queueVars, wakeVars, regVars>>]_vars

\* wake() was called during a blocked poll and its sentinel is in the queue
C12_WokenWhileBlocked ==
    /\ woken
    /\ pollState = "blocked"
    /\ queue # <<>>
    /\ queue[Len(queue)] = <<WakerFd, None>>

C14_ReadErrorIsDisconnect ==
    [][\A o \in Outboxes :
          ( /\ srvEnd[o] = "open"
            /\ wire'[o] = wire[o]
            /\ OnMessage(peerFd[o]) )
          => /\ handlers' = handlers \ {peerFd[o]}
             /\ srvEnd' = [srvEnd EXCEPT ![o] = "closed"]
             /\ arrived' = <<>>
             /\ exc' = "none"
             /\ UNCHANGED <<clients, peerFd, rxbuf, owed>>]_vars

\* a peer was torn down though the outbox never closed its end
C14_TornDownByError ==
    \E o \in Outboxes :
        /\ srvEnd[o] = "closed"
        /\ peerFd[o] # 0
        /\ cliEnd[o] = "open"
        /\ wire[o] # <<>>
        /\ exc = "none"

(***************************************************************************)
(* C15: when the bytes read from a peer cannot be decoded, the inbox tears *)
(* the connection down as for a disconnect, dispatches nothing, and no     *)
(* exception leaves on_message.                                            *)
(***************************************************************************)
C15_UndecodableTearsDown ==
    [][\A o \in Outboxes :
          (ReadStep(o) /\ loads(Chunk(o)).exc # "none")
          => /\ exc' = "none"
             /\ arrived' = <<>>
             /\ srvEnd'[o] = "closed"
             /\ peerFd[o] \notin handlers']_vars

(***************************************************************************)
(* C16: registering a mailbox in the wrong role raises ValueError out of   *)
(* register: a SocketMailbox as inbox, before any connection is opened,    *)
(* and a SocketServerMailbox as outbox.                                    *)
(***************************************************************************)
C16_WrongRoleIsValueError ==
    [][ /\ \A o \in Outboxes :
             OutRegisterCall(o, TRUE)
             => (exc' = "ValueError" /\ UNCHANGED <<nconn, outSock, cliEnd, srvEnd>>)
        /\ \A impl \in Impls :
             SrvRegisterCall(impl, FALSE) => exc' = "ValueError" ]_vars

\* both kinds have been registered in the wrong role; nothing was connected
C16_BothWrongRoles ==
    /\ srvType = "outbox"
    /\ \E o \in Outboxes : outType[o] = "inbox" /\ outSock[o] = None
    /\ nconn = 0
    /\ exc = "ValueError"

(***************************************************************************)
(* C17: in every state SocketMailbox.read_message and                      *)
(* SocketServerMailbox.put raise MailboxError, which is not the socket's   *)
(* error, read or send nothing and change no state of the mailbox.         *)
(***************************************************************************)
C17_OtherRoleOperationsRefused ==
    [][ /\ \A m \in Messages :
             SrvPut(m) => (exc' = "MailboxError" /\ exc' # "socket.error" /\ NoChange)
        /\ \A o \in Outboxes :
             OutReadMessage(o)
             => (exc' = "MailboxError" /\ exc' # "socket.error" /\ NoChange) ]_vars

\* the error was raised with the inbox listening and an outbox connected
C17_RefusedWhileConnected ==
    /\ exc = "MailboxError"
    /\ srvSock = "open"
    /\ \E o \in Outboxes : outSock[o] = "open"

(***************************************************************************)
(* C18: a register call schedules the 'inbox_address' callback once, with  *)
(* the mailbox's address, when it succeeds as an inbox of an actor that is *)
(* not a monitor and the address is not empty, and never otherwise; a      *)
(* registration as outbox adds no read handler.                            *)
(***************************************************************************)
C18_InboxAddressScheduledOnce ==
    [][ /\ \A impl \in Impls, inbox \in BOOLEAN :
             SrvRegisterCall(impl, inbox)
             => /\ callbacks' =
                      IF exc' = "none" /\ inbox /\ impl # "monitor"
                      THEN Append(callbacks, <<"inbox_address", SrvAddress>>)
                      ELSE callbacks
                /\ ~inbox => handlers' = handlers
        /\ \A o \in Outboxes, inbox \in BOOLEAN :
             OutRegisterCall(o, inbox)
             => (callbacks' = callbacks /\ handlers' = handlers)
        /\ \A q \in QueueIds, impl \in Impls, inbox \in BOOLEAN :
             QRegister(q, impl, inbox)
             => /\ callbacks' = callbacks
                /\ ~inbox => qHandlers' = qHandlers ]_vars

\* a monitor's inbox, a queue inbox and an outbox are registered, and
\* nothing is scheduled
C18_RegisteredWithoutCallback ==
    /\ srvActor = "monitor" /\ srvType = "inbox" /\ srvSock = "open"
    /\ \E q \in QueueIds : qType[q] = "inbox" /\ qActor[q] = "worker"
    /\ \E o \in Outboxes : outType[o] = "outbox" /\ outSock[o] = "open"
    /\ callbacks = <<>>

(***************************************************************************)
(* C19: when the connection attempt of a SocketMailbox's registration      *)
(* fails, register raises that error after exactly one attempt, and the    *)
(* outbox, which held no socket before its registration, holds none after. *)
(***************************************************************************)
C19_FailedConnectIsFatal ==
    [][\A o \in Outboxes :
          (outSock[o] = None /\ srvSock # "open" /\ OutRegisterCall(o, FALSE))
          => /\ exc' = "socket.error"
             /\ nconn' = nconn + 1
             /\ outSock'[o] = None]_vars

\* an outbox tried to connect once, to nobody, and holds no socket
C19_ConnectFailed ==
    /\ exc = "socket.error"
    /\ nconn = 1
    /\ \E o \in Outboxes : outType[o] = "outbox" /\ outSock[o] = None

(***************************************************************************)
(* C20: the owning actor and the role of a mailbox are set once: after a   *)
(* register no later operation, a further register included, changes them. *)
(***************************************************************************)
C20_ActorAndRoleSetOnce ==
    [][ /\ srvActor # None => (srvActor' = srvActor /\ srvType' = srvType)
        /\ \A o \in Outboxes :
             outActor[o] # None
             => (outActor'[o] = outActor[o] /\ outType'[o] = outType[o])
        /\ \A q \in QueueIds :
             qActor[q] # None
             => (qActor'[q] = qActor[q] /\ qType'[q] = qType[q]) ]_vars

(***************************************************************************)
(* C21: senders putting on an open queue while the reactor polls it: every *)
(* pair enqueued is returned by exactly one poll, under the id of the      *)
(* mailbox that put it, and the pairs of one sender are returned in the    *)
(* order that sender put them.  The messages a sender has enqueued and no  *)
(* poll has returned yet are at all times the messages of the pairs that   *)
(* carry its id in the queue, in that order, and a pair a poll returns is  *)
(* the oldest one its sender is owed.                                      *)
(***************************************************************************)
C21_EveryPairPolledOnceInOrder ==
    /\ [](\A q \in QueueIds : qowed[q] = MessagesOf(q, queue))
    /\ [][(Poll /\ polled' # <<>>)
          => LET q == polled'[1][1]
             IN /\ q \in QueueIds
                /\ qowed[q] # <<>>
                /\ polled'[1][2] = Head(qowed[q])
                /\ qowed' = [qowed EXCEPT ![q] = Tail(@)]]_vars

\* a poll has returned a sender's first pair while a pair of another sender
\* and a later pair of the same sender are in the queue
C21_PolledBetweenTwoSenders ==
    /\ ~qclosed
    /\ Len(polled) = 1
    /\ \E q \in QueueIds :
         /\ polled[1][1] = q
         /\ qowed[q] # <<>>
         /\ \E r \in QueueIds \ {q} : qowed[r] # <<>>

(***************************************************************************)
(* C22: IOQueue.register, unregister and modify change the registration    *)
(* set only, never the queued pairs; and a poll on an open queue that has  *)
(* a pair returns the oldest pair whether or not its id is registered.     *)
(***************************************************************************)
C22_RegistrationIsAdvisory ==
    [][ /\ \A fd \in IOIds :
             (IORegister(fd) \/ IOUnregister(fd) \/ IOModify(fd))
             => UNCHANGED <<sockVars, queue, qclosed, qblocked, polled, nqputs,
                            qowed, wakeVars, regVars>>
        /\ (Poll /\ ~qclosed /\ queue # <<>>)
             => (polled' = <<Head(queue)>> /\ queue' = Tail(queue)) ]_vars

\* a poll has returned a pair whose id is not registered, while another id
\* is registered
C22_PolledUnregistered ==
    /\ Len(polled) = 1
    /\ polled[1][1] \notin ioFds
    /\ ioFds # {}

(***************************************************************************)
(* C23: modify(id) leaves the registration set as unregister(id) followed  *)
(* by register(id) does: id is registered afterwards whether it was before *)
(* or not, and no other id is touched; unregister of an id that is not     *)
(* registered changes nothing and raises nothing; register of a registered *)
(* id leaves the set as it is.                                             *)
(***************************************************************************)
C23_ModifyIsUnregisterThenRegister ==
    [][\A fd \in IOIds :
          /\ IOModify(fd)
              => /\ ioFds' = (ioFds \ {fd}) \cup {fd}
                 /\ fd \in ioFds'
                 /\ \A g \in IOIds \ {fd} : (g \in ioFds') = (g \in ioFds)
                 /\ exc' = "none"
          /\ (IOUnregister(fd) /\ fd \notin ioFds)
              => (ioFds' = ioFds /\ exc' = "none")
          /\ (IORegister(fd) /\ fd \in ioFds)
              => (ioFds' = ioFds /\ exc' = "none") ]_vars

\* two ids are registered and a third is not, with pairs in the queue
C23_SomeRegistered ==
    /\ Cardinality(ioFds) = 2
    /\ WakerFd \in ioFds
    /\ queue # <<>>

(***************************************************************************)
(* C24: every call of IOQueue.poll(timeout) returns; a call that finds no  *)
(* pair, no sender putting and nobody waking while it waits, returns the   *)
(* empty sequence when its timeout has passed, and takes nothing.          *)
(***************************************************************************)
C24_PollTerminates ==
    /\ (pollState = "blocked") ~> (pollState = "idle")
    /\ [][(pollState = "blocked" /\ pollState' = "idle"
             /\ ~qclosed /\ queue = <<>>)
          => (polled' = <<>> /\ queue' = <<>>)]_vars

\* a poll of an open, empty queue has been waiting; nothing was ever put
C24_WaitsOnEmptyQueue ==
    /\ pollState = "blocked"
    /\ ~qclosed /\ queue = <<>>
    /\ nqputs = 0 /\ ~woken /\ ~wblocked

(***************************************************************************)
(* C25: an event on a peer descriptor whose read returns no bytes, or      *)
(* fails, gives nothing to message_arrived and raises nothing out of       *)
(* on_message; the peer's handler is gone afterwards.                      *)
(***************************************************************************)
C25_DisconnectIsSilent ==
    [][\A o \in Outboxes :
          ( /\ srvEnd[o] = "open"
            /\ wire'[o] = wire[o]
            /\ OnMessage(peerFd[o]) )
          => /\ arrived' = <<>>
             /\ exc' = "none"
             /\ peerFd[o] \notin handlers']_vars

\* an outbox has closed its end, all it wrote has been read, and the read
\* of no bytes that followed has torn the peer down
C25_PeerClosedAndCleanedUp ==
    \E o \in Outboxes :
        /\ cliEnd[o] = "closed"
        /\ wire[o] = <<>>
        /\ srvEnd[o] = "closed"
        /\ peerFd[o] \notin handlers
        /\ exc = "none" /\ arrived = <<>>

(***************************************************************************)
(* C26: after close() on a SocketMailbox that held a connection, no later  *)
(* put writes a byte to the peer: the outbox stays closed, every put on it *)
(* fails, and the bytes in flight to the peer never grow.                  *)
(***************************************************************************)
C26_NoWriteAfterClose ==
    [][\A o \in Outboxes :
          outSock[o] = "closed"
          => /\ outSock'[o] = "closed"
             /\ Len(wire'[o]) <= Len(wire[o])
             /\ \A m \in Messages :
                   Put(o, m) => (exc' # "none" /\ wire'[o] = wire[o])]_vars

\* an outbox that had written to its peer was closed, and the put that came
\* after has failed
C26_PutAfterCloseFailed ==
    \E o \in Outboxes :
        /\ outSock[o] = "closed"
        /\ owed[o] # <<>>
        /\ nputs = 2
        /\ exc = "socket.error"

(***************************************************************************)
(* C27: an event on a known peer descriptor does exactly one recv, of at   *)
(* most io.DEFAULT_BUFFER_SIZE bytes: whatever the peer has written, the   *)
(* event takes no more than that from the connection, at least one byte    *)
(* when it reads at all, and the chunk it got, a full buffer included,     *)
(* does not send it into a further read.                                   *)
(***************************************************************************)
C27_OneRecvPerEvent ==
    [][\A o \in Outboxes :
          (srvEnd[o] = "open" /\ OnMessage(peerFd[o]))
          => /\ Len(wire[o]) - Len(wire'[o]) <= DEFAULT_BUFFER_SIZE
             /\ wire'[o] = SubSeq(wire[o], Len(wire[o]) - Len(wire'[o]) + 1,
                                  Len(wire[o]))
             /\ ReadStep(o) => ~ReadsOn(Chunk(o))
             /\ \A p \in Outboxes \ {o} : wire'[p] = wire[p]]_vars

\* a peer had written more than a buffer holds; the inbox has read from it,
\* bytes of a later message along with the first, given one message to the
\* actor and left bytes on the connection
C27_ReadLeftBytesBehind ==
    \E o \in Outboxes :
        /\ srvEnd[o] = "open"
        /\ Len(owed[o]) = MaxBurst - 1
        /\ wire[o] # <<>>
        /\ Len(wire[o]) < Len(Written(owed[o]))
        /\ arrived # <<>>

(***************************************************************************)
(* C28: mailbox(address, id, queue) returns a socket outbox for an address *)
(* without an id, a QueueMailbox for an id and a queue without an address, *)
(* raises ValueError for an address with an id, and raises ValueError for  *)
(* every other combination of arguments.                                   *)
(***************************************************************************)
C28_FactoryByArguments ==
    [][\A address \in Addresses, id \in Ids, que \in Queues :
          MailboxCall(address, id, que)
          => IF address # None /\ id = None
             THEN made' = "SocketMailbox" /\ exc' = "none"
             ELSE IF address = None /\ id # None /\ que # None
             THEN made' = "QueueMailbox" /\ exc' = "none"
             ELSE made' = None /\ exc' = "ValueError"]_vars

(***************************************************************************)
(* C29: a WsgiResponse is iterated once only: the first iteration sets     *)
(* started, every later one raises RuntimeError, an assignment to content  *)
(* once iteration has started raises RuntimeError and leaves the content   *)
(* as it is, and started never goes back to False.                         *)
(***************************************************************************)
C29_IteratedOnceOnly ==
    [][ /\ (Iter /\ ~started) => (started' /\ exc' = "none")
        /\ (Iter /\ started) => exc' = "RuntimeError"
        /\ \A c \in Contents :
             (SetContent(c) /\ started)
             => (exc' = "RuntimeError" /\ content' = content)
        /\ started => started' ]_vars

\* a response whose content was set has been iterated, and the call after
\* that, a second iteration or an assignment to content, was refused
C29_RefusedAfterStart ==
    /\ started
    /\ content.chunks # <<>>
    /\ exc = "RuntimeError"

(***************************************************************************)
(* C30: run_test runs the phases of a test in the order _pre_setup (if the *)
(* test has one), setUp, the test function, tearDown, _post_teardown (if   *)
(* the test has one); setUp runs only if _pre_setup did not fail, the test *)
(* function only if setUp did not fail, tearDown exactly when setUp ran    *)
(* and did not fail, whatever the test function did; addSuccess is         *)
(* reported exactly when no phase failed and the test was not skipped.     *)
(***************************************************************************)
C30_PhasesInOrder ==
    /\ \A i, j \in DOMAIN ran : i < j => PhaseNo(ran[i]) < PhaseNo(ran[j])
    /\ "_pre_setup" \in Ran => tcase.pre
    /\ "_post_teardown" \in Ran => tcase.post
    /\ "setUp" \in Ran => "_pre_setup" \notin failures
    /\ "setUp" \in Ran => (tcase.pre => ran[1] = "_pre_setup")
    /\ "test" \in Ran => ("setUp" \in Ran /\ "setUp" \notin failures)
    /\ "tearDown" \in Ran => ("setUp" \in Ran /\ "setUp" \notin failures)
    /\ tpc = "done"
         => /\ "tearDown" \in Ran
                <=> ("setUp" \in Ran /\ "setUp" \notin failures)
            /\ "test" \in Ran <=> "tearDown" \in Ran
            /\ "setUp" \in Ran
                <=> (~tcase.skip /\ "_pre_setup" \notin failures)
            /\ "_post_teardown" \in Ran <=> (tcase.post /\ ~tcase.skip)
            /\ (\E i \in DOMAIN reports : reports[i] = "addSuccess")
                <=> (failures = {} /\ ~tcase.skip)

\* a test with both hooks has come to its end: its test function failed,
\* tearDown and _post_teardown ran all the same, and no success is reported
C30_TestFailedTearDownRan ==
    /\ tpc = "done"
    /\ failures = {"test"}
    /\ ran = Phases
    /\ \A i \in DOMAIN reports : reports[i] # "addSuccess"


C32_EveryMessageArrives ==
    [][(polled # <<>> /\ Head(polled)[1] \in QueueIds
            /\ \E q \in QueueIds : QOnMessage(q))
       => arrived' = <<Head(polled)[2]>>]_vars

(***************************************************************************)
(* C36: an event whose payload is None, as the waker's sentinel is, never  *)
(* makes a queue mailbox call message_arrived.                             *)
(***************************************************************************)
C36_NoneNeverArrives ==
    [][(polled # <<>> /\ Head(polled)[1] = WakerFd
            /\ \E q \in QueueIds : QOnMessage(q))
       => arrived' = <<>>]_vars

\* a queue mailbox's on_message was handed the waker's sentinel
C36_SentinelHandled ==
    /\ handled = <<<<WakerFd, None>>>>
    /\ arrived = <<>>


(***************************************************************************)
(* C33: a registration of a SocketServerMailbox as outbox, which fails     *)
(* with ValueError, leaves no listening socket open: the mailbox's sock is *)
(* None or closed after it.                                                *)
(***************************************************************************)
C33_FailedRegistrationLeavesNoSocket ==
    [][\A impl \in Impls :
          SrvRegisterCall(impl, FALSE)
          => (exc' = "ValueError" /\ srvSock' \in {None, "closed"})]_vars

(***************************************************************************)
(* C34: a register call that raises, for the wrong role or for a connect   *)
(* that failed, adds no read handler to the reactor and schedules no       *)
(* callback.                                                               *)
(***************************************************************************)
C34_FailedRegisterAddsNothing ==
    [][(exc' # "none" /\
          \/ \E impl \in Impls, inbox \in BOOLEAN : SrvRegisterCall(impl, inbox)
          \/ \E o \in Outboxes, inbox \in BOOLEAN : OutRegisterCall(o, inbox)
          \/ \E q \in QueueIds, impl \in Impls, inbox \in BOOLEAN :
                QRegister(q, impl, inbox))
       => UNCHANGED <<handlers, qHandlers, callbacks>>]_vars

\* a connect failed, then a registration in the wrong role: no handler and
\* no callback
C34_FailedTwiceNothingAdded ==
    /\ srvType = "outbox"
    /\ exc = "ValueError"
    /\ nconn = 1
    /\ \E o \in Outboxes : outType[o] = "outbox" /\ outSock[o] = None
    /\ handlers = {}
    /\ callbacks = <<>>


(***************************************************************************)
(* C35: once the SocketServerMailbox is registered, every peer descriptor  *)
(* with a read handler is a key of clients, mapped to that peer's socket,  *)
(* which is open; and the listening descriptor is not a key of clients.    *)
(***************************************************************************)
C35_HandledPeersAreClients ==
    srvActor # None =>
        /\ \A fd \in handlers \ {srvFd} :
              /\ clients[fd] # None
              /\ peerFd[clients[fd]] = fd
              /\ srvEnd[clients[fd]] = "open"
        /\ clients[srvFd] = None

\* one peer has gone and left its entry behind, another is being served
C35_OnePeerGoneOneServed ==
    /\ srvSock = "open"
    /\ \E fd \in handlers \ {srvFd} : clients[fd] # None
    /\ \E fd \in Fds \ handlers :
          clients[fd] # None /\ srvEnd[clients[fd]] = "closed"


C38_StateHasNoSocket ==
    [][\A o \in Outboxes :
          OutGetState(o)
          => /\ transferred'[2].sock = None
             /\ transferred'[2].address = Dict(o).address
             /\ outSock'[o] = outSock[o]
             /\ outActor'[o] = outActor[o]
             /\ outType'[o] = outType[o]]_vars

\* the state of a connected outbox was taken, and it is still connected
C38_TakenFromConnected ==
    /\ transferred # <<>>
    /\ outSock[transferred[1]] = "open"
    /\ outType[transferred[1]] = "outbox"
    /\ transferred[2].type = "outbox"
    /\ transferred[2].sock = None

====
